---- MODULE Spec2Model ----
(***************************************************************************)
(* reroll: a dice-notation parser (src/src/parser.rs) and a tree-walking   *)
(* evaluator (src/src/eval.rs).                                            *)
(*                                                                         *)
(* The evaluator is modelled as a stack machine: one frame per active Rust *)
(* call, one action per statement group of the function on top of the      *)
(* stack.  Every call of roll() is one step that draws any face the range  *)
(* 1..=sides allows.  A panic freezes the machine with outcome "panic".    *)
(***************************************************************************)
EXTENDS Integers, Sequences, FiniteSets

VARIABLES
    expr0,      \* the expression handed to eval_expr (main.rs:42)
    stack,      \* active calls, the innermost last
    ret,        \* <<v>>: the value the call that just finished returned
    outcome,    \* "running" | "returned" | "panic"
    result,     \* <<EvalResult>> once the outermost eval_expr has returned
    panic_msg,  \* the message of the panic that ended evaluation
    draws,      \* every value roll() has produced so far, in draw order
    pair0,      \* the dice_expr pair pest hands to parse_expressions
    parsed,     \* <<exprs>> once parse_expressions has returned
    pstate      \* "idle" | "input" | "parsed" | "panic"

vars == <<expr0, stack, ret, outcome, result, panic_msg, draws, pair0, parsed, pstate>>

pvars == <<pair0, parsed, pstate>>

----------------------------------------------------------------------------
(* Bounds of the model *)

MaxCount == 3      \* largest dice / repetition count in the inputs
MaxSides == 3      \* largest number of sides in the inputs
MaxLen   == 6      \* explode stops drawing once rolls holds this many values

----------------------------------------------------------------------------
(* i32 *)

I32Max == 2147483647
I32Min == (-2147483647) - 1

----------------------------------------------------------------------------
(* parser.rs: Expr, DiceModifier *)

Number(n) == [tag |-> "Number", n |-> n]
Dice(c, s, m) == [tag |-> "Dice", count |-> c, sides |-> s, modifiers |-> m]
BinaryOp(l, op, r) == [tag |-> "BinaryOp", l |-> l, op |-> op, r |-> r]
Repetition(c, e, m) == [tag |-> "Repetition", count |-> c, expr |-> e, modifiers |-> m]

\* value is an Option: <<>> is None, <<e>> is Some(e)
DiceModifier(kind, value) == [kind |-> kind, value |-> value]

DiceModifierType == {"KeepHigh", "KeepLow", "DropHigh", "DropLow", "Explode"}

----------------------------------------------------------------------------
(* eval.rs: EvalResult *)

Rolls(v) == [tag |-> "Rolls", v |-> v]
Num(n) == [tag |-> "Number", n |-> n]

RECURSIVE SumSeq(_)
SumSeq(s) == IF s = <<>> THEN 0 ELSE s[1] + SumSeq(Tail(s))

to_number(r) == IF r.tag = "Number" THEN r.n ELSE SumSeq(r.v)

\* the range starts at 0
roll_from_zero(sides) == 0..sides

\* fastrand::i32(1..=sides): any value of the range; the empty range panics
roll(sides) == 1..sides

----------------------------------------------------------------------------
(* Vec<i32> operations used by the modifiers *)

RECURSIVE Insert(_, _, _)
Insert(x, s, desc) ==
    IF s = <<>> THEN <<x>>
    ELSE IF (IF desc THEN x > s[1] ELSE x < s[1]) THEN <<x>> \o s
    ELSE <<s[1]>> \o Insert(x, Tail(s), desc)

\* a stable sort of the whole vector: an element goes after its equals
RECURSIVE SortFrom(_, _)
SortFrom(s, desc) ==
    IF s = <<>> THEN <<>>
    ELSE Insert(s[Len(s)], SortFrom(SubSeq(s, 1, Len(s) - 1), desc), desc)

\* rolls.sort()
sort(s) == SortFrom(s, FALSE)

\* rolls.sort_by(|a, b| b.cmp(a))
sort_desc(s) == SortFrom(s, TRUE)

\* `count as usize > len`: a negative i32 becomes a usize above every length
as_usize_exceeds(count, len) == count < 0 \/ count > len

\* Vec::truncate(count as usize): no effect when count as usize >= len
truncate(v, count) ==
    IF as_usize_exceeds(count, Len(v)) THEN v ELSE SubSeq(v, 1, count)

\* Vec::drain(0..count as usize): panics when the range ends past len.
\* <<>> is the panic, <<w>> the vector left behind.
drain(v, count) ==
    IF as_usize_exceeds(count, Len(v)) THEN <<>>
    ELSE <<SubSeq(v, count + 1, Len(v))>>

\* the sort is ascending
keep_high_ascending(rolls, count) == truncate(sort(rolls), count)

keep_high(rolls, count) == truncate(sort_desc(rolls), count)

keep_low(rolls, count) == truncate(sort(rolls), count)

drop_high(rolls, count) == drain(sort_desc(rolls), count)

drop_low(rolls, count) == drain(sort(rolls), count)

----------------------------------------------------------------------------
(* The call stack *)

Top == stack[Len(stack)]
Rest == SubSeq(stack, 1, Len(stack) - 1)
Running(fn, pc) ==
    /\ outcome = "running"
    /\ stack # <<>>
    /\ Top.fn = fn
    /\ Top.pc = pc

\* eval_expr(e) is called: its frame goes on top, the caller waits at pc
Call(e, caller) ==
    /\ stack' = Rest \o <<caller, [fn |-> "eval_expr", pc |-> "match", expr |-> e]>>
    /\ ret' = <<>>
    /\ UNCHANGED <<expr0, outcome, result, panic_msg, draws, pvars>>

\* the function on top continues as frame f (a step inside it, or a tail call)
Goto(f) ==
    /\ stack' = Rest \o <<f>>
    /\ ret' = <<>>
    /\ UNCHANGED <<expr0, outcome, result, panic_msg, draws, pvars>>

\* the function on top returns v to its caller; the outermost return ends evaluation
Return(v) ==
    /\ stack' = Rest
    /\ ret' = <<v>>
    /\ outcome' = IF Rest = <<>> THEN "returned" ELSE outcome
    /\ result' = IF Rest = <<>> THEN <<v>> ELSE result
    /\ UNCHANGED <<expr0, panic_msg, draws, pvars>>

Panic(msg) ==
    /\ outcome' = "panic"
    /\ panic_msg' = msg
    /\ UNCHANGED <<expr0, stack, ret, result, draws, pvars>>

----------------------------------------------------------------------------
(* eval_expr *)

eval_dice_frame(e) ==
    [fn |-> "eval_dice", pc |-> "count", count_e |-> e.count, sides_e |-> e.sides,
     modifiers |-> e.modifiers, count |-> 0, sides |-> 0, rolls |-> <<>>, k |-> 0]

eval_op_frame(e) ==
    [fn |-> "eval_op", pc |-> "exp1", exp1_e |-> e.l, op |-> e.op, exp2_e |-> e.r,
     exp1 |-> 0, exp2 |-> 0]

eval_rep_frame(e) ==
    [fn |-> "eval_rep", pc |-> "count", count_e |-> e.count, expr |-> e.expr,
     modifiers |-> e.modifiers, count |-> 0, result |-> <<>>, k |-> 0]

\* sides is an Option<i32>: <<>> is None
eval_modifiers_frame(rolls, modifiers, sides) ==
    [fn |-> "eval_modifiers", pc |-> "next", rolls |-> rolls, modifiers |-> modifiers,
     sides |-> sides, m |-> 1, value |-> 0]

explode_frame(rolls, sides, threshold) ==
    [fn |-> "explode", pc |-> "while", rolls |-> rolls, sides |-> sides,
     threshold |-> threshold, i |-> 0]

eval_expr ==
    /\ Running("eval_expr", "match")
    /\ LET e == Top.expr IN
       CASE e.tag = "Number" -> Return(Num(e.n))
         [] e.tag = "Dice" -> Goto(eval_dice_frame(e))
         [] e.tag = "BinaryOp" -> Goto(eval_op_frame(e))
         [] e.tag = "Repetition" -> Goto(eval_rep_frame(e))

----------------------------------------------------------------------------
(* eval_op *)

\* i32 `/`: the quotient rounded toward zero
i32_div(a, b) ==
    LET q == a \div b IN
    IF q * b # a /\ ((a < 0) # (b < 0)) THEN q + 1 ELSE q

\* the check of exp2 is missing: Rust's own panic takes its place
divide_unchecked(exp1, exp2) ==
    IF exp2 = 0 THEN Panic("attempt to divide by zero")
    ELSE IF exp1 = I32Min /\ exp2 = -1 THEN Panic("attempt to divide with overflow")
    ELSE Return(Num(i32_div(exp1, exp2)))

\* the '/' arm; i32::MIN / -1 has no i32 quotient and panics in every build
divide(exp1, exp2) ==
    IF exp2 = 0 THEN Panic("division by zero!")
    ELSE IF exp1 = I32Min /\ exp2 = -1 THEN Panic("attempt to divide with overflow")
    ELSE Return(Num(i32_div(exp1, exp2)))

eval_op_exp1 ==
    /\ Running("eval_op", "exp1")
    /\ Call(Top.exp1_e, [Top EXCEPT !.pc = "exp2"])

eval_op_exp2 ==
    /\ Running("eval_op", "exp2")
    /\ Call(Top.exp2_e, [Top EXCEPT !.exp1 = to_number(ret[1]), !.pc = "match"])

eval_op_match ==
    /\ Running("eval_op", "match")
    /\ LET exp1 == Top.exp1
           exp2 == to_number(ret[1])
       IN
       CASE Top.op = "+" -> Return(Num(exp1 + exp2))
         [] Top.op = "-" -> Return(Num(exp1 - exp2))
         [] Top.op = "*" -> Return(Num(exp1 * exp2))
         [] Top.op = "/" -> divide(exp1, exp2)
         [] OTHER -> Panic("unsupported operation")

----------------------------------------------------------------------------
(* eval_dice *)

eval_dice_count ==
    /\ Running("eval_dice", "count")
    /\ Call(Top.count_e, [Top EXCEPT !.pc = "sides"])

eval_dice_sides ==
    /\ Running("eval_dice", "sides")
    /\ Call(Top.sides_e, [Top EXCEPT !.count = to_number(ret[1]), !.pc = "rolls"])

eval_dice_rolls ==
    /\ Running("eval_dice", "rolls")
    /\ Goto([Top EXCEPT !.sides = to_number(ret[1]), !.rolls = <<>>, !.k = 0, !.pc = "for"])

\* one iteration of `for _ in 0..count { rolls.push(roll(sides)) }`
eval_dice_push ==
    /\ Running("eval_dice", "for")
    /\ Top.k < Top.count
    /\ IF roll(Top.sides) = {}
       THEN Panic("empty range")
       ELSE \E r \in roll(Top.sides) :
              /\ stack' = Rest \o <<[Top EXCEPT !.rolls = Append(@, r), !.k = @ + 1]>>
              /\ draws' = Append(draws, r)
              /\ UNCHANGED <<expr0, ret, outcome, result, panic_msg, pvars>>

\* the loop is over: eval_modifiers(rolls, modifiers, Some(sides)) gives the result
eval_dice_modifiers ==
    /\ Running("eval_dice", "for")
    /\ Top.k >= Top.count
    /\ Goto(eval_modifiers_frame(Top.rolls, Top.modifiers, <<Top.sides>>))

----------------------------------------------------------------------------
(* eval_rep *)

eval_rep_count ==
    /\ Running("eval_rep", "count")
    /\ Call(Top.count_e, [Top EXCEPT !.pc = "result"])

eval_rep_result ==
    /\ Running("eval_rep", "result")
    /\ Goto([Top EXCEPT !.count = to_number(ret[1]), !.result = <<>>, !.k = 0, !.pc = "for"])

eval_rep_expr ==
    /\ Running("eval_rep", "for")
    /\ Top.k < Top.count
    /\ Call(Top.expr, [Top EXCEPT !.pc = "push"])

\* the scalar goes to the front
rep_push_front(result_vec, r) == <<to_number(r)>> \o result_vec

\* result.push(eval_expr(expr).to_number())
rep_push(result_vec, r) == Append(result_vec, to_number(r))

eval_rep_push ==
    /\ Running("eval_rep", "push")
    /\ Goto([Top EXCEPT !.result = rep_push(@, ret[1]), !.k = @ + 1, !.pc = "for"])

\* the loop is over: eval_modifiers(result, modifiers, None) gives the result
eval_rep_modifiers ==
    /\ Running("eval_rep", "for")
    /\ Top.k >= Top.count
    /\ Goto(eval_modifiers_frame(Top.result, Top.modifiers, <<>>))

----------------------------------------------------------------------------
(* eval_modifiers *)

eval_modifiers_next ==
    /\ Running("eval_modifiers", "next")
    /\ IF Top.m > Len(Top.modifiers)
       THEN Return(Rolls(Top.rolls))
       ELSE LET modifier == Top.modifiers[Top.m] IN
            IF modifier.value # <<>>
            THEN Call(modifier.value[1], [Top EXCEPT !.pc = "value"])
            ELSE IF modifier.kind = "Explode"
                 THEN IF Top.sides = <<>>
                      THEN Panic("Explode requires number of sides.")
                      ELSE Goto([Top EXCEPT !.value = Top.sides[1], !.pc = "kind"])
                 ELSE Panic("All dice modifiers (except explode) must be followed by a value.")

eval_modifiers_value ==
    /\ Running("eval_modifiers", "value")
    /\ Goto([Top EXCEPT !.value = to_number(ret[1]), !.pc = "kind"])

eval_modifiers_kind ==
    /\ Running("eval_modifiers", "kind")
    /\ LET kind == Top.modifiers[Top.m].kind
           value == Top.value
           done(v) == Goto([Top EXCEPT !.rolls = v, !.m = @ + 1, !.pc = "next"])
       IN
       CASE kind = "KeepHigh" -> done(keep_high(Top.rolls, value))
         [] kind = "KeepLow" -> done(keep_low(Top.rolls, value))
         [] kind = "DropHigh" ->
              IF drop_high(Top.rolls, value) = <<>>
              THEN Panic("range end index out of range")
              ELSE done(drop_high(Top.rolls, value)[1])
         [] kind = "DropLow" ->
              IF drop_low(Top.rolls, value) = <<>>
              THEN Panic("range end index out of range")
              ELSE done(drop_low(Top.rolls, value)[1])
         [] kind = "Explode" ->
              IF Top.sides = <<>>
              THEN Panic("Missing sides")
              ELSE /\ stack' = Rest \o <<[Top EXCEPT !.pc = "exploded"],
                                         explode_frame(Top.rolls, Top.sides[1], value)>>
                   /\ ret' = <<>>
                   /\ UNCHANGED <<expr0, outcome, result, panic_msg, draws, pvars>>

eval_modifiers_exploded ==
    /\ Running("eval_modifiers", "exploded")
    /\ Goto([Top EXCEPT !.rolls = ret[1], !.m = @ + 1, !.pc = "next"])

----------------------------------------------------------------------------
(* explode *)

\* the new roll replaces rolls[i] instead of being pushed
explode_reroll_in_place(r) ==
    /\ Running("explode", "while")
    /\ Top.i < Len(Top.rolls)
    /\ Top.rolls[Top.i + 1] >= Top.threshold
    /\ Len(draws) < MaxLen
    /\ r \in roll(Top.sides)
    /\ stack' = Rest \o <<[Top EXCEPT !.rolls[Top.i + 1] = r,
                                      !.i = IF r < Top.threshold THEN @ + 1 ELSE @]>>
    /\ draws' = Append(draws, r)
    /\ UNCHANGED <<expr0, ret, outcome, result, panic_msg, pvars>>

\* `while rolls[i] >= threshold` is entered or re-entered: one more draw is
\* pushed; a draw below threshold breaks out to `i += 1`
explode_push(r) ==
    /\ Running("explode", "while")
    /\ Top.i < Len(Top.rolls)
    /\ Top.rolls[Top.i + 1] >= Top.threshold
    /\ Len(Top.rolls) < MaxLen
    /\ r \in roll(Top.sides)
    /\ stack' = Rest \o <<[Top EXCEPT !.rolls = Append(@, r),
                                      !.i = IF r < Top.threshold THEN @ + 1 ELSE @]>>
    /\ draws' = Append(draws, r)
    /\ UNCHANGED <<expr0, ret, outcome, result, panic_msg, pvars>>

explode_roll ==
    /\ Running("explode", "while")
    /\ IF Top.i < Len(Top.rolls) /\ Top.rolls[Top.i + 1] >= Top.threshold
          /\ roll(Top.sides) = {}
       THEN Panic("empty range")
       ELSE \E r \in roll(Top.sides) : explode_push(r)

\* rolls[i] < threshold: the inner loop is skipped, `i += 1`
explode_skip ==
    /\ Running("explode", "while")
    /\ Top.i < Len(Top.rolls)
    /\ Top.rolls[Top.i + 1] < Top.threshold
    /\ Goto([Top EXCEPT !.i = @ + 1])

explode_return ==
    /\ Running("explode", "while")
    /\ Top.i >= Len(Top.rolls)
    /\ Return(Top.rolls)

----------------------------------------------------------------------------
(* The expressions evaluated *)

NoValue == <<>>
Value(n) == <<Number(n)>>

KeepDrop == {"KeepHigh", "KeepLow", "DropHigh", "DropLow"}

\* modifier lists of a dice term
DiceModifierLists ==
    {<<>>}
    \cup {<<DiceModifier(kind, Value(k))>> : kind \in KeepDrop, k \in (-1)..(MaxCount + 1)}
    \cup {<<DiceModifier("Explode", NoValue)>>}
    \cup {<<DiceModifier("Explode", Value(t))>> : t \in 0..(MaxSides + 1)}
    \cup {<<DiceModifier(kind, NoValue)>> : kind \in KeepDrop}
    \cup {<<DiceModifier("DropLow", Value(1)), DiceModifier("KeepHigh", Value(1))>>,
          <<DiceModifier("Explode", NoValue), DiceModifier("KeepHigh", Value(2))>>,
          <<DiceModifier("KeepHigh", <<Dice(Number(1), Number(2), <<>>)>>)>>}

DiceInputs ==
    {Dice(Number(c), Number(s), m) :
        c \in 0..MaxCount, s \in 0..MaxSides, m \in DiceModifierLists}
    \cup {Dice(Number(-1), Number(2), <<>>),
          Dice(Number(2), Number(-1), <<>>),
          Dice(Number(-1), Number(2), <<DiceModifier("Explode", NoValue)>>),
          Dice(BinaryOp(Number(1), "-", Number(2)), Number(2), <<>>),
          Dice(Number(2), BinaryOp(Number(1), "-", Number(1)), <<>>),
          Dice(Dice(Number(1), Number(2), <<>>), Number(2), <<>>),
          Dice(Number(2), Dice(Number(1), Number(2), <<>>), <<>>)}

Numerators == {Number(4), Number(-7), Dice(Number(2), Number(2), <<>>)}

Denominators ==
    {Number(0), Number(2), Number(-1), Number(-2),
     BinaryOp(Number(1), "-", Number(1)),
     Dice(Number(0), Number(2), <<>>),
     Dice(Number(1), Number(2), <<>>),
     Repetition(Number(0), Number(1), <<>>)}

\* 0-2147483647-1: i32::MIN from literals the parser accepts
MinByArithmetic == BinaryOp(BinaryOp(Number(0), "-", Number(I32Max)), "-", Number(1))

OpInputs ==
    {BinaryOp(l, op, r) : l \in Numerators, op \in {"+", "-", "*", "/", "%"},
                          r \in Denominators}
    \cup {BinaryOp(Number(I32Min), "/", r) : r \in Denominators}
    \cup {BinaryOp(Repetition(Number(1), MinByArithmetic, <<>>), "/",
                   Repetition(Number(1), BinaryOp(Number(0), "-", Number(1)), <<>>)),
          BinaryOp(BinaryOp(Number(1), "/", Number(0)), "/", Number(2)),
          BinaryOp(Number(2), "+", BinaryOp(Number(3), "*", Number(4)))}

Repeated ==
    {Number(2), Dice(Number(2), Number(2), <<>>), Dice(Number(1), Number(0), <<>>),
     BinaryOp(Dice(Number(1), Number(2), <<>>), "+", Number(1))}
    \cup {Dice(Number(1), Number(s), <<>>) : s \in 1..MaxSides}

RepModifierLists ==
    {<<>>,
     <<DiceModifier("KeepHigh", Value(1))>>,
     <<DiceModifier("DropLow", Value(1))>>,
     <<DiceModifier("KeepLow", NoValue)>>,
     <<DiceModifier("Explode", NoValue)>>,
     <<DiceModifier("Explode", Value(2))>>}

RepInputs ==
    {Repetition(Number(c), e, m) :
        c \in (-1)..MaxCount, e \in Repeated, m \in RepModifierLists}

Inputs == {Number(42)} \cup DiceInputs \cup OpInputs \cup RepInputs

----------------------------------------------------------------------------
(* main.rs:42: eval_expr(expr) on one parsed expression *)

Init ==
    /\ expr0 \in Inputs
    /\ stack = <<[fn |-> "eval_expr", pc |-> "match", expr |-> expr0]>>
    /\ ret = <<>>
    /\ outcome = "running"
    /\ result = <<>>
    /\ panic_msg = ""
    /\ draws = <<>>
    /\ pair0 = <<>>
    /\ parsed = <<>>
    /\ pstate = "idle"

Next ==
    \/ eval_expr
    \/ eval_op_exp1
    \/ eval_op_exp2
    \/ eval_op_match
    \/ eval_dice_count
    \/ eval_dice_sides
    \/ eval_dice_rolls
    \/ eval_dice_push
    \/ eval_dice_modifiers
    \/ eval_rep_count
    \/ eval_rep_result
    \/ eval_rep_expr
    \/ eval_rep_push
    \/ eval_rep_modifiers
    \/ eval_modifiers_next
    \/ eval_modifiers_value
    \/ eval_modifiers_kind
    \/ eval_modifiers_exploded
    \/ explode_roll
    \/ explode_skip
    \/ explode_return

Spec == Init /\ [][Next]_vars

----------------------------------------------------------------------------
(* parser.rs: from pest pairs to Expr.  A pair is its rule, its text         *)
(* (as_str(), a sequence of characters) and its inner pairs (into_inner()).  *)
(* A parse function yields <<>> where the Rust code panics, <<x>> otherwise. *)

MaxChildren == 3   \* most children of the dice productions parsed

Pair(rule, str, inner) == [rule |-> rule, str |-> str, inner |-> inner]

Digits == <<"0", "1", "2", "3", "4", "5", "6", "7", "8", "9">>

IsDigit(c) == \E d \in DOMAIN Digits : Digits[d] = c
DigitValue(c) == (CHOOSE d \in DOMAIN Digits : Digits[d] = c) - 1

\* str.parse::<i32>() on the digits read so far; an empty text, a character
\* that is no digit, or a value above i32::MAX is an Err, and unwrap() panics
RECURSIVE parse_i32(_, _)
parse_i32(str, acc) ==
    IF str = <<>> THEN <<acc>>
    ELSE IF ~IsDigit(str[1]) THEN <<>>
    ELSE IF acc > (I32Max - DigitValue(str[1])) \div 10 THEN <<>>
    ELSE parse_i32(Tail(str), acc * 10 + DigitValue(str[1]))

modifier_kind(rule) ==
    CASE rule = "explode" -> <<"Explode">>
      [] rule = "keep_high" -> <<"KeepHigh">>
      [] rule = "keep_low" -> <<"KeepLow">>
      [] rule = "drop_high" -> <<"DropHigh">>
      [] rule = "drop_low" -> <<"DropLow">>
      [] OTHER -> <<>>

RECURSIVE parse_expr(_)
RECURSIVE parse_dice_modifier(_)
RECURSIVE parse_dice(_, _, _, _, _, _)
RECURSIVE parse_modifiers(_, _, _)
RECURSIVE parse_binary(_, _, _)

parse_dice_modifier(pair) ==
    IF pair.inner = <<>> THEN <<>>
    ELSE LET kind == modifier_kind(pair.inner[1].rule)
             value == IF Len(pair.inner) >= 2 THEN parse_expr(pair.inner[2]) ELSE <<>>
         IN
         IF kind = <<>> THEN <<>>
         ELSE IF Len(pair.inner) >= 2
              THEN IF value = <<>> THEN <<>>
                   ELSE <<DiceModifier(kind[1], <<value[1]>>)>>
              ELSE <<DiceModifier(kind[1], <<>>)>>

\* the loop over the children of a dice pair, from child i on
parse_dice(children, i, count, sides, modifiers, set_sides) ==
    IF i > Len(children) THEN <<Dice(count, sides, modifiers)>>
    ELSE LET child == children[i] IN
         IF child.rule = "dice_modifier"
         THEN LET m == parse_dice_modifier(child) IN
              IF m = <<>> THEN <<>>
              ELSE parse_dice(children, i + 1, count, sides, Append(modifiers, m[1]),
                              set_sides)
         ELSE IF child.rule \in {"number", "expr"}
         THEN LET e == parse_expr(child) IN
              IF e = <<>> THEN <<>>
              ELSE IF set_sides
                   THEN parse_dice(children, i + 1, sides, e[1], modifiers, set_sides)
                   ELSE parse_dice(children, i + 1, count, e[1], modifiers, TRUE)
         ELSE <<>>

\* `while let Some(child) = children.next()` of a repetition, from child i on
parse_modifiers(children, i, modifiers) ==
    IF i > Len(children) THEN <<modifiers>>
    ELSE LET m == parse_dice_modifier(children[i]) IN
         IF m = <<>> THEN <<>>
         ELSE parse_modifiers(children, i + 1, Append(modifiers, m[1]))

\* `while let Some(op) = inner.next()` of add_sub / mul_div, from child i on
parse_binary(inner, i, left) ==
    IF i > Len(inner) THEN <<left>>
    ELSE IF inner[i].str = <<>> \/ i + 1 > Len(inner) THEN <<>>
    ELSE LET right == parse_expr(inner[i + 1]) IN
         IF right = <<>> THEN <<>>
         ELSE parse_binary(inner, i + 2, BinaryOp(left, inner[i].str[1], right[1]))

parse_expr(pair) ==
    CASE pair.rule = "number" ->
           LET n == IF pair.str = <<>> THEN <<>> ELSE parse_i32(pair.str, 0) IN
           IF n = <<>> THEN <<>> ELSE <<Number(n[1])>>
      [] pair.rule = "dice" ->
           parse_dice(pair.inner, 1, Number(1), Number(1), <<>>, FALSE)
      [] pair.rule = "repetition" ->
           IF Len(pair.inner) < 2 THEN <<>>
           ELSE LET count == parse_expr(pair.inner[1])
                    expr == parse_expr(pair.inner[2])
                    modifiers == parse_modifiers(pair.inner, 3, <<>>)
                IN
                IF count = <<>> \/ expr = <<>> \/ modifiers = <<>> THEN <<>>
                ELSE <<Repetition(count[1], expr[1], modifiers[1])>>
      [] pair.rule \in {"add_sub", "mul_div"} ->
           IF pair.inner = <<>> THEN <<>>
           ELSE LET left == parse_expr(pair.inner[1]) IN
                IF left = <<>> THEN <<>>
                ELSE parse_binary(pair.inner, 2, left[1])
      [] OTHER -> <<>>

\* pair.into_inner().map(|e| parse_expr(e)).collect(), from inner pair i on
RECURSIVE parse_all(_, _, _)
parse_all(inner, i, exprs) ==
    IF i > Len(inner) THEN <<exprs>>
    ELSE LET e == parse_expr(inner[i]) IN
         IF e = <<>> THEN <<>>
         ELSE parse_all(inner, i + 1, Append(exprs, e[1]))

parse_expressions(pair) ==
    IF pair.rule # "dice_expr" THEN <<>>
    ELSE parse_all(pair.inner, 1, <<>>)

(* The pairs parsed *)

NumberPair(str) == Pair("number", str, <<>>)
ModifierPair(rule, value) == Pair("dice_modifier", <<>>, <<Pair(rule, <<>>, <<>>)>> \o value)

\* "1d4" and "2+1" as pest hands them over
OneD4 == Pair("dice", <<>>, <<NumberPair(<<"1">>), NumberPair(<<"4">>)>>)
TwoPlusOne ==
    Pair("add_sub", <<>>,
         <<Pair("mul_div", <<>>, <<NumberPair(<<"2">>)>>),
           Pair("op", <<"+">>, <<>>),
           Pair("mul_div", <<>>, <<NumberPair(<<"1">>)>>)>>)

\* a parenthesized expression as a child, under the rule the dice arm matches
ExprPair(inner) == Pair("expr", <<>>, <<inner>>)

DiceChildren ==
    {NumberPair(<<"3">>), NumberPair(<<"1", "2">>),
     ExprPair(OneD4), ExprPair(TwoPlusOne),
     ModifierPair("keep_high", <<NumberPair(<<"3">>)>>),
     ModifierPair("explode", <<>>)}

SeqsUpTo(S, n) == UNION {[1..k -> S] : k \in 0..n}

DicePairs == {Pair("dice", <<>>, children) : children \in SeqsUpTo(DiceChildren, MaxChildren)}

OtherPairs ==
    {NumberPair(<<"4">>),
     NumberPair(<<"2", "1", "4", "7", "4", "8", "3", "6", "4", "7">>),
     NumberPair(<<"2", "1", "4", "7", "4", "8", "3", "6", "4", "8">>),
     TwoPlusOne,
     Pair("mul_div", <<>>, <<OneD4, Pair("op", <<"*">>, <<>>), NumberPair(<<"2">>)>>),
     Pair("repetition", <<>>, <<NumberPair(<<"3">>), OneD4>>),
     Pair("repetition", <<>>,
          <<NumberPair(<<"2">>), OneD4, ModifierPair("keep_high", <<NumberPair(<<"3">>)>>)>>),
     Pair("dice", <<>>, <<NumberPair(<<"4">>), NumberPair(<<"6">>),
                          ModifierPair("drop_low", <<ExprPair(TwoPlusOne)>>)>>),
     Pair("dice", <<>>, <<NumberPair(<<"4">>), Pair("add_sub", <<>>, <<NumberPair(<<"6">>)>>)>>)}

PairInputs ==
    {Pair("dice_expr", <<>>, <<p>>) : p \in DicePairs \cup OtherPairs}
    \cup {Pair("dice_expr", <<>>, <<OneD4, TwoPlusOne>>)}

(* main.rs:33: parse(&input), from the pair pest produced *)

ParseInit ==
    /\ pair0 \in PairInputs
    /\ parsed = <<>>
    /\ pstate = "input"
    /\ expr0 = Number(0)
    /\ stack = <<>>
    /\ ret = <<>>
    /\ outcome = "idle"
    /\ result = <<>>
    /\ panic_msg = ""
    /\ draws = <<>>

parse ==
    /\ pstate = "input"
    /\ parsed' = parse_expressions(pair0)
    /\ pstate' = IF parse_expressions(pair0) = <<>> THEN "panic" ELSE "parsed"
    /\ UNCHANGED <<pair0, expr0, stack, ret, outcome, result, panic_msg, draws>>

ParseNext == parse

ParseSpec == ParseInit /\ [][ParseNext]_vars

----------------------------------------------------------------------------
(* Vocabulary of the properties *)

Returned == outcome = "returned"
Panicked == outcome = "panic"
ResultRolls == result[1].v

\* Dice{count, sides, _} whose count and sides are literals
LiteralDice(e) ==
    /\ e.tag = "Dice"
    /\ e.count.tag = "Number"
    /\ e.sides.tag = "Number"

\* ... with exactly one modifier, of kind `kind`, whose value is Some(literal)
DiceWithOne(e, kind) ==
    /\ LiteralDice(e)
    /\ Len(e.modifiers) = 1
    /\ e.modifiers[1].kind = kind
    /\ e.modifiers[1].value # <<>>
    /\ e.modifiers[1].value[1].tag = "Number"

Range(s) == {s[i] : i \in DOMAIN s}
Count(s, x) == Cardinality({i \in DOMAIN s : s[i] = x})

\* out is a sub-multiset of in
SubMultiset(out, in) == \A x \in Range(out) : Count(out, x) <= Count(in, x)

\* out holds the k largest values of in: nothing left out is above a value kept
Largest(out, in, k) ==
    /\ Len(out) = k
    /\ SubMultiset(out, in)
    /\ \A x \in Range(in), y \in Range(out) : Count(in, x) > Count(out, x) => x <= y

Smallest(out, in, k) ==
    /\ Len(out) = k
    /\ SubMultiset(out, in)
    /\ \A x \in Range(in), y \in Range(out) : Count(in, x) > Count(out, x) => x >= y

----------------------------------------------------------------------------
\* C1: evaluating Dice{count, sides, []} with count >= 1 and sides >= 1 never
\* panics, and when it returns, the result is Rolls of exactly `count`
\* elements, each in 1..sides, whatever the random source draws.
C1_PlainDice ==
    (/\ LiteralDice(expr0)
     /\ expr0.modifiers = <<>>
     /\ expr0.count.n >= 1
     /\ expr0.sides.n >= 1)
    => /\ ~Panicked
       /\ Returned =>
            /\ result[1].tag = "Rolls"
            /\ Len(ResultRolls) = expr0.count.n
            /\ \A i \in DOMAIN ResultRolls : ResultRolls[i] \in 1..expr0.sides.n

C1_Witness ==
    /\ Returned
    /\ LiteralDice(expr0)
    /\ expr0.modifiers = <<>>
    /\ expr0.count.n = 2
    /\ expr0.sides.n >= 2
    /\ ResultRolls = <<expr0.sides.n, 1>>

----------------------------------------------------------------------------
\* C2: every step of eval_modifiers that applies KeepHigh, KeepLow, DropHigh
\* or DropLow with 0 <= k <= n to a working sequence of length n succeeds and
\* leaves the extremal sub-multiset of that sequence: KeepHigh the k largest,
\* KeepLow the k smallest, DropHigh all but the k largest (the n-k smallest),
\* DropLow all but the k smallest (the n-k largest).
C2_Step ==
    (/\ Running("eval_modifiers", "kind")
     /\ Top.modifiers[Top.m].kind \in KeepDrop
     /\ 0 <= Top.value
     /\ Top.value <= Len(Top.rolls))
    => /\ outcome' = "running"
       /\ LET kind == Top.modifiers[Top.m].kind
              in == Top.rolls
              out == stack'[Len(stack')].rolls
              k == Top.value
              n == Len(Top.rolls)
          IN
          CASE kind = "KeepHigh" -> Largest(out, in, k)
            [] kind = "KeepLow" -> Smallest(out, in, k)
            [] kind = "DropHigh" -> Smallest(out, in, n - k)
            [] kind = "DropLow" -> Largest(out, in, n - k)

\* C2: every keep / drop step with 0 <= k <= n leaves the extremal sub-multiset
C2_KeepDropExtremal == [][C2_Step]_vars

C2_Witness ==
    /\ Returned
    /\ DiceWithOne(expr0, "DropHigh")
    /\ expr0.modifiers[1].value[1].n = 1
    /\ draws = <<1, 3, 2>>
    /\ ResultRolls = <<2, 1>>

----------------------------------------------------------------------------
\* C3: when Repetition{count, expr, []} with a literal count >= 0 returns, the
\* result is Rolls of exactly `count` elements, element i being the sum-reduced
\* result of the i-th evaluation of expr, in evaluation order: with
\* expr = Dice{1, s, []}, s >= 1, evaluation never panics and the elements are
\* the draws, in draw order, each in 1..s; with expr = Dice{2, 2, []} element i
\* is the sum of draws 2i-1 and 2i; with expr = Number(2) every element is 2.
PlainRepetition(e) ==
    /\ e.tag = "Repetition"
    /\ e.count.tag = "Number"
    /\ e.count.n >= 0
    /\ e.modifiers = <<>>

OneDie(e) ==
    /\ LiteralDice(e)
    /\ e.modifiers = <<>>
    /\ e.count.n = 1
    /\ e.sides.n >= 1

C3_Repetition ==
    PlainRepetition(expr0)
    => /\ OneDie(expr0.expr) => ~Panicked
       /\ Returned =>
            /\ result[1].tag = "Rolls"
            /\ Len(ResultRolls) = expr0.count.n
            /\ OneDie(expr0.expr) =>
                 /\ ResultRolls = draws
                 /\ \A i \in DOMAIN ResultRolls :
                        ResultRolls[i] \in 1..expr0.expr.sides.n
            /\ expr0.expr = Dice(Number(2), Number(2), <<>>) =>
                 \A i \in DOMAIN ResultRolls :
                     ResultRolls[i] = draws[2 * i - 1] + draws[2 * i]
            /\ expr0.expr = Number(2) =>
                 \A i \in DOMAIN ResultRolls : ResultRolls[i] = 2

C3_Witness ==
    /\ Returned
    /\ PlainRepetition(expr0)
    /\ OneDie(expr0.expr)
    /\ expr0.count.n = 3
    /\ ResultRolls = <<2, 1, 3>>

----------------------------------------------------------------------------
\* C5: when Dice{n, s, [Explode]} (default or explicit threshold) returns, the
\* result has at least n elements, its first n elements are the n original
\* draws in draw order, and every element lies in 1..s.
ExplodingDice(e) ==
    /\ LiteralDice(e)
    /\ Len(e.modifiers) = 1
    /\ e.modifiers[1].kind = "Explode"
    /\ e.modifiers[1].value # <<>> => e.modifiers[1].value[1].tag = "Number"

Threshold(e) ==
    IF e.modifiers[1].value = <<>> THEN e.sides.n ELSE e.modifiers[1].value[1].n

Original(e) == IF e.count.n < 0 THEN 0 ELSE e.count.n

C5_ExplodeAppends ==
    (ExplodingDice(expr0) /\ Returned)
    => /\ Len(ResultRolls) >= expr0.count.n
       /\ Len(draws) >= Original(expr0)
       /\ SubSeq(ResultRolls, 1, Original(expr0)) = SubSeq(draws, 1, Original(expr0))
       /\ \A i \in DOMAIN ResultRolls : ResultRolls[i] \in 1..expr0.sides.n

C5_Witness ==
    /\ Returned
    /\ ExplodingDice(expr0)
    /\ expr0.modifiers[1].value = <<>>
    /\ expr0.count.n = 2
    /\ expr0.sides.n = 3
    /\ ResultRolls = <<3, 2, 3, 1, 2>>

----------------------------------------------------------------------------
\* C4 (as claimed): a step of eval_op that applies '/' with a right operand
\* that evaluated to 0 ends in the "division by zero!" panic and returns
\* nothing; with a right operand other than 0 the division raises no error.
Dividing == Running("eval_op", "match") /\ Top.op = "/"

C4_ClaimedStep ==
    Dividing
    => IF to_number(ret[1]) = 0
       THEN outcome' = "panic" /\ panic_msg' = "division by zero!"
       ELSE outcome' # "panic"

\* C4 (as claimed): '/' errs on a zero right operand and on nothing else
C4_DivisionErrsOnlyOnZero == [][C4_ClaimedStep]_vars

Abs(x) == IF x < 0 THEN -x ELSE x

\* q is exp1 / exp2 rounded toward zero
TruncatedQuotient(q, exp1, exp2) ==
    LET r == exp1 - q * exp2 IN
    /\ Abs(r) < Abs(exp2)
    /\ exp1 >= 0 => r >= 0
    /\ exp1 <= 0 => r <= 0

\* C4 (amended): a right operand of 0 always ends in the "division by zero!"
\* panic; a right operand other than 0 raises an error in exactly one case,
\* i32::MIN / -1, which panics with the overflow message; in every other case
\* eval_op returns Number(quotient rounded toward zero).
C4_AmendedStep ==
    Dividing
    => LET exp1 == Top.exp1
           exp2 == to_number(ret[1])
       IN
       IF exp2 = 0
       THEN outcome' = "panic" /\ panic_msg' = "division by zero!"
       ELSE IF exp1 = I32Min /\ exp2 = -1
       THEN outcome' = "panic" /\ panic_msg' = "attempt to divide with overflow"
       ELSE /\ outcome' # "panic"
            /\ ret'[1].tag = "Number"
            /\ TruncatedQuotient(ret'[1].n, exp1, exp2)

\* C4 (amended): '/' errs on a zero right operand and on i32::MIN / -1 only
C4_Division == [][C4_AmendedStep]_vars

C4_Witness ==
    /\ Panicked
    /\ panic_msg = "division by zero!"
    /\ expr0 = BinaryOp(Dice(Number(2), Number(2), <<>>), "/",
                        Dice(Number(0), Number(2), <<>>))
    /\ draws = <<2, 1>>

----------------------------------------------------------------------------
\* C7 (as claimed): with k above the length of the working sequence none of
\* KeepHigh, KeepLow, DropHigh, DropLow ends in an error; Keep returns the
\* whole sequence, sorted, and Drop returns the empty sequence.
C7_SilentClamp ==
    (/\ \E kind \in KeepDrop : DiceWithOne(expr0, kind)
     /\ expr0.sides.n >= 1
     /\ expr0.count.n >= 0
     /\ expr0.modifiers[1].value[1].n > expr0.count.n)
    => /\ ~Panicked
       /\ Returned =>
            CASE expr0.modifiers[1].kind = "KeepHigh" ->
                   Largest(ResultRolls, draws, Len(draws))
              [] expr0.modifiers[1].kind = "KeepLow" ->
                   Smallest(ResultRolls, draws, Len(draws))
              [] OTHER -> ResultRolls = <<>>

----------------------------------------------------------------------------
\* C8 (as claimed): evaluating a Dice whose sides evaluate below 1 or whose
\* count evaluates below 0 never returns a result.
InvalidDice(e) ==
    /\ e.tag = "Dice"
    /\ \/ e.sides.tag = "Number" /\ e.sides.n < 1
       \/ e.count.tag = "Number" /\ e.count.n < 0
       \/ e.sides = BinaryOp(Number(1), "-", Number(1))
       \/ e.count = BinaryOp(Number(1), "-", Number(2))

C8_InvalidDiceIsError == InvalidDice(expr0) => ~Returned

----------------------------------------------------------------------------
\* C10 (as claimed): when Explode on the n draws of Dice{n, s, [Explode]}
\* finishes, the final length is n plus the number of elements >= threshold in
\* the final sequence.
AtOrAbove(s, threshold) == Cardinality({i \in DOMAIN s : s[i] >= threshold})

C10_OneDrawPerValue ==
    (ExplodingDice(expr0) /\ Returned)
    => Len(ResultRolls) = Original(expr0) + AtOrAbove(ResultRolls, Threshold(expr0))

----------------------------------------------------------------------------
\* The evaluator is one sequential thread: it takes its next step whenever it
\* has one, and the random source produces every face again and again.
ExplodeInputs ==
    {Dice(Number(c), Number(s), m) :
        c \in 0..MaxCount, s \in 1..MaxSides,
        m \in {<<DiceModifier("Explode", NoValue)>>}
              \cup {<<DiceModifier("Explode", Value(t))>> : t \in 0..(MaxSides + 1)}}
    \cup {BinaryOp(Dice(Number(2), Number(2), <<DiceModifier("Explode", NoValue)>>),
                   "+", Number(3)),
          Repetition(Number(2), Dice(Number(1), Number(2), <<>>),
                     <<DiceModifier("KeepHigh", Value(1))>>)}

FairInit ==
    /\ expr0 \in ExplodeInputs
    /\ stack = <<[fn |-> "eval_expr", pc |-> "match", expr |-> expr0]>>
    /\ ret = <<>>
    /\ outcome = "running"
    /\ result = <<>>
    /\ panic_msg = ""
    /\ draws = <<>>
    /\ pair0 = <<>>
    /\ parsed = <<>>
    /\ pstate = "idle"

FairSpec ==
    /\ FairInit
    /\ [][Next]_vars
    /\ WF_vars(Next)
    /\ \A r \in 1..MaxSides : SF_vars(explode_push(r))

\* C9 (as claimed): explode called with threshold <= 1 on a non-empty sequence
\* comes to an end, by returning or by an error.  (No draw of 1..sides is below
\* such a threshold, so `while rolls[i] >= threshold` never breaks: the code
\* pushes without end, and the model follows it for MaxLen values.)
InExplode == outcome = "running" /\ stack # <<>> /\ Top.fn = "explode"

----------------------------------------------------------------------------
\* C6 (as claimed): parse_expr turns a dice production with one or two
\* numeric / parenthesized children into a Dice node: the last such child is
\* sides, the one before it is count (Number(1) when there is none), also when
\* a child is a nested parenthesized expression, and the modifier children
\* form `modifiers` in document order wherever they stand.
IsValueChild(c) == c.rule \in {"number", "expr"}
IsModifierChild(c) == c.rule = "dice_modifier"

\* what a numeric / parenthesized child stands for
ChildExpr(c) == IF c.rule = "number" THEN parse_expr(c)[1] ELSE parse_expr(c.inner[1])[1]

C6_DiceCountSides ==
    (/\ pstate # "input"
     /\ pstate # "idle"
     /\ Len(pair0.inner) = 1
     /\ pair0.inner[1] \in DicePairs
     /\ Len(SelectSeq(pair0.inner[1].inner, IsValueChild)) \in {1, 2})
    => LET children == pair0.inner[1].inner
           values == SelectSeq(children, IsValueChild)
           mods == SelectSeq(children, IsModifierChild)
       IN
       /\ pstate = "parsed"
       /\ parsed[1][1].tag = "Dice"
       /\ parsed[1][1].sides = ChildExpr(values[Len(values)])
       /\ parsed[1][1].count =
            IF Len(values) = 1 THEN Number(1) ELSE ChildExpr(values[1])
       /\ parsed[1][1].modifiers = [i \in 1..Len(mods) |-> parse_dice_modifier(mods[i])[1]]

====
